---- MODULE Spec2Model ----
(***************************************************************************)
(* Model of wavenet/lc_audio_reader.py: the MidiMapper (event-to-sample    *)
(* upsampling engine) and the LCAudioReader producer threads that feed the *)
(* audio and local-conditioning queues.                                    *)
(*                                                                         *)
(* Arrays are sequences of rows.  A row of an embedding array is the set   *)
(* of channel indices whose value is 1 (all other channels are 0), so the  *)
(* all-zero row is {}.  A row of an audio array is a sample value.         *)
(*                                                                         *)
(* The file imports the Python 3 module name `queue` but divides with `/`  *)
(* and feeds the quotient to range(); the interpreter major version (py)   *)
(* is therefore an input: under 2 `/` on ints is floor division, under 3   *)
(* it is true division and range() of the float quotient raises TypeError. *)
(* Times are exact rationals [n, d]; float rounding is not modelled.       *)
(***************************************************************************)
EXTENDS Integers, Sequences, FiniteSets, TLC

VARIABLES
    py,        \* interpreter major version, 2 or 3
    cfg,       \* index into Configs: constructor arguments and call inputs
    mapper,    \* the MidiMapper object (engine specification)
    nfiles,    \* number of set_midi calls made on mapper
    calls,     \* upsample calls since the last set_midi, with their results
    status,    \* "ok", or the name of the exception that ended the caller
    \* ---- LCAudioReader state (reader specification) ----
    rcfg,      \* index into ReaderConfigs
    coord_stop,\* coord.should_stop()
    q_audio,   \* self.q_audio: [items, taken], every array enqueued, in
               \* order, and how many of them have been dequeued
    q_lc,      \* self.q_lc, likewise
    th         \* per producer thread: position and locals of input_stream

vars == <<py, cfg, mapper, nfiles, calls, status,
          rcfg, coord_stop, q_audio, q_lc, th>>

mvars == <<py, cfg, mapper, nfiles, calls, status>>
rvars == <<rcfg, coord_stop, q_audio, q_lc, th>>

\* None is modelled by -1, a value no field of the program takes otherwise
None == 0 - 1
NoErr == "none"

(***************************************************************************)
(* Bounds of the model.                                                    *)
(***************************************************************************)
MaxFiles == 2      \* set_midi calls on one mapper
MaxCalls == 2      \* upsample calls per file
MaxReads == 2      \* files one producer thread takes from load_files

(***************************************************************************)
(* Program constants.                                                      *)
(***************************************************************************)
DefaultTempo == 500000
MicrosPerSecond == 1000000

(***************************************************************************)
(* Exact arithmetic.                                                       *)
(***************************************************************************)
RECURSIVE GCD(_, _)
GCD(a, b) == IF b = 0 THEN a ELSE GCD(b, a % b)

Reduce(n, d, g) == [n |-> n \div g, d |-> d \div g]
Rat(n, d) == Reduce(n, d, GCD(n, d))
RInt(n) == [n |-> n, d |-> 1]
RAdd(x, y) == Rat(x.n * y.d + y.n * x.d, x.d * y.d)
RMulInt(x, k) == Rat(x.n * k, x.d)
\* float('inf'): above every finite time under RLess
Inf == [n |-> 1, d |-> 0]
RLess(x, y) == x.n * y.d < y.n * x.d
\* x - y for finite x and y
RSub(x, y) == Rat(x.n * y.d - y.n * x.d, x.d * y.d)

\* Python's a / b on non-negative ints with b > 0: floor under 2, exact under 3
PyDiv(v, a, b) == IF v = 2 THEN RInt(a \div b) ELSE Rat(a, b)

\* floor(x * a / b) without forming the product x * a
FloorMulDiv(x, a, b) ==
    (x * (a \div GCD(a, b))) \div (b \div GCD(a, b))

Max(a, b) == IF a > b THEN a ELSE b
Abs(a) == IF a < 0 THEN 0 - a ELSE a

\* seq[i] with Python's indexing: 0-based, negative i counts from the end
PyIndex(seq, i) == IF i < 0 THEN seq[Len(seq) + i + 1] ELSE seq[i + 1]

\* list.remove(x): drops the first occurrence of x
RECURSIVE PyRemove(_, _)
PyRemove(seq, x) ==
    IF seq = <<>> THEN <<>>
    ELSE IF Head(seq) = x THEN Tail(seq)
    ELSE <<Head(seq)>> \o PyRemove(Tail(seq), x)

InList(x, seq) == \E i \in 1..Len(seq) : seq[i] = x

\* np.zeros(shape = (n, lc_channels))
Zeros(n) == [i \in 1..n |-> {}]

\* a[k:] and a[:k] for k >= 0
DropRows(a, k) == IF k >= Len(a) THEN <<>> ELSE SubSeq(a, k + 1, Len(a))
TakeRows(a, k) == IF k >= Len(a) THEN a ELSE SubSeq(a, 1, k)

(***************************************************************************)
(* MIDI events (python-midi): name, tick (delta), data.                    *)
(***************************************************************************)
NoteOnName == "Note On"
NoteOffName == "Note Off"
SetTempoName == "Set Tempo"
EndOfTrackName == "End of Track"
OtherName == "Control Change"

NoteOn(d, id) == [name |-> NoteOnName, tick |-> d, data |-> <<id, 64>>]
NoteOff(d, id) == [name |-> NoteOffName, tick |-> d, data |-> <<id, 0>>]
SetTempo(d, b0, b1, b2) == [name |-> SetTempoName, tick |-> d, data |-> <<b0, b1, b2>>]
EndOfTrack(d) == [name |-> EndOfTrackName, tick |-> d, data |-> <<>>]
Other(d) == [name |-> OtherName, tick |-> d, data |-> <<7, 100>>]

\* int(format(d0,'08b') + format(d1,'08b') + format(d2,'08b'), 2), bytes < 256
TempoOfData(data) == (data[1] * 256 + data[2]) * 256 + data[3]

(***************************************************************************)
(* Timelines: midi patterns as read by midi.read_midifile; midi[0] is the  *)
(* track, midi.resolution the ticks per beat.                              *)
(***************************************************************************)
Timelines == <<
    \* 1: two notes, one released, end of track
    [resolution |-> 4000,
     track |-> <<NoteOn(0, 0), NoteOn(3, 1), NoteOff(2, 0), EndOfTrack(0)>>],
    \* 2: a note struck twice, released once
    [resolution |-> 4000,
     track |-> <<NoteOn(0, 0), NoteOn(2, 0), NoteOff(2, 0), NoteOn(3, 1),
                 EndOfTrack(0)>>],
    \* 3: releases of notes that are not active, zero and nonzero delta
    [resolution |-> 4000,
     track |-> <<NoteOn(0, 0), NoteOff(0, 1), NoteOff(3, 2), NoteOn(2, 1),
                 EndOfTrack(0)>>],
    \* 4: tempo set before the first note and changed while a note is held
    [resolution |-> 4000,
     track |-> <<SetTempo(0, 3, 208, 144), SetTempo(0, 7, 161, 32), NoteOn(0, 0),
                 SetTempo(4, 15, 66, 64), NoteOff(2, 0), EndOfTrack(0)>>],
    \* 5: other events, with deltas, before and between the notes
    [resolution |-> 4000,
     track |-> <<Other(2), NoteOn(2, 0), Other(3), NoteOff(1, 0),
                 EndOfTrack(2)>>],
    \* 6: resolution 480 at 120 BPM: NoteOn(60), NoteOn(64) 240 ticks later
    [resolution |-> 480,
     track |-> <<NoteOn(0, 60), NoteOn(240, 64), EndOfTrack(0)>>],
    \* 7: every note event has delta 0; time passes on another event
    [resolution |-> 4000,
     track |-> <<NoteOn(0, 0), Other(3), NoteOff(0, 0), EndOfTrack(0)>>],
    \* 8: a track that does not end with an End of Track event
    [resolution |-> 4000,
     track |-> <<NoteOn(0, 0), NoteOff(2, 0)>>],
    \* 9: a note id that is not below lc_channels
    [resolution |-> 4000,
     track |-> <<NoteOn(0, 0), NoteOn(2, 5), NoteOff(3, 0), EndOfTrack(0)>>],
    \* 10: resolution 0
    [resolution |-> 0,
     track |-> <<NoteOn(0, 0), NoteOff(2, 0), EndOfTrack(0)>>],
    \* 11: tempo 0, set before the first note
    [resolution |-> 4000,
     track |-> <<SetTempo(0, 0, 0, 0), NoteOn(0, 0), NoteOff(2, 0),
                 EndOfTrack(0)>>],
    \* 12: runs of zero-delta tempo changes, followed by a note event and by
    \* a tempo change with a delta (250000, 1000000, 250000, 500000, 1000000)
    [resolution |-> 4000,
     track |-> <<NoteOn(0, 0), SetTempo(0, 3, 208, 144), SetTempo(0, 15, 66, 64),
                 NoteOff(2, 0), SetTempo(0, 3, 208, 144), SetTempo(0, 7, 161, 32),
                 SetTempo(2, 15, 66, 64), EndOfTrack(0)>>],
    \* 13: tempo 0, set while a note is held
    [resolution |-> 4000,
     track |-> <<NoteOn(0, 0), NoteOn(2, 1), SetTempo(0, 0, 0, 0), NoteOff(2, 0),
                 EndOfTrack(0)>>],
    \* 14: other events with and without a delta, before the first note and
    \* while notes are held; embeddings of 0, 1 and 2 active notes
    [resolution |-> 4000,
     track |-> <<Other(2), NoteOn(2, 0), Other(0), NoteOn(3, 1), Other(1),
                 NoteOff(2, 0), NoteOff(2, 1), EndOfTrack(0)>>]
>>

(***************************************************************************)
(* Configurations: MidiMapper constructor arguments, the files given to    *)
(* set_midi and the sample indices given to upsample.                      *)
(***************************************************************************)
Configs == <<
    [sample_rate |-> 8000, lc_channels |-> 3, files |-> {1, 2, 3, 4, 5, 7},
     starts |-> {0 - 2, 0, 2}, ends |-> {None, 0, 2, 5}],
    [sample_rate |-> 16000, lc_channels |-> 128, files |-> {6},
     starts |-> {0}, ends |-> {None, 4000, 5000}],
    [sample_rate |-> 8000, lc_channels |-> 3, files |-> {1, 8, 9, 10, 11, 12, 13, 14},
     starts |-> {0, 3}, ends |-> {None, 3, 6}]
>>

(***************************************************************************)
(* MidiMapper                                                              *)
(***************************************************************************)
\* MidiMapper.__init__
NewMapper(sample_rate, lc_channels) ==
    [sample_rate |-> sample_rate, lc_channels |-> lc_channels,
     start_sample |-> None, end_sample |-> None,
     tempo |-> None, PPQN |-> None, first_note_index |-> None,
     midi |-> None, mapper_lc_q |-> <<>>]

\* MidiMapper.set_sample_range
SetSampleRange(m, start_sample, end_sample) ==
    [m EXCEPT !.start_sample = start_sample, !.end_sample = end_sample]

\* MidiMapper.sample_to_microseconds
SampleToMicroseconds(v, m, sample_num) ==
    RMulInt(PyDiv(v, MicrosPerSecond, m.sample_rate), sample_num)

\* MidiMapper.tick_delta_to_microseconds, for PPQN > 0
TickDeltaToMicroseconds(v, tempo, PPQN, delta_ticks) ==
    PyDiv(v, tempo * delta_ticks, PPQN)

\* The scan of update_midi_metadata for the first Note On event: s is
\* [idx, tempo, err]; track[idx] past the end raises IndexError.
ScanStep(s, ev) ==
    [s EXCEPT !.idx = s.idx + 1,
              !.tempo = IF ev.name = SetTempoName THEN TempoOfData(ev.data)
                        ELSE s.tempo]

RECURSIVE FirstNoteScan(_, _)
FirstNoteScan(track, s) ==
    IF s.idx >= Len(track) THEN [s EXCEPT !.err = "IndexError"]
    ELSE IF track[s.idx + 1].name = NoteOnName THEN s
    ELSE FirstNoteScan(track, ScanStep(s, track[s.idx + 1]))

\* The assignments that end update_midi_metadata, r the result of the scan
MetadataFrom(m, resolution, r) ==
    IF r.err # NoErr THEN [m |-> m, err |-> r.err]
    ELSE [m |-> [m EXCEPT !.tempo = IF r.tempo # None THEN r.tempo
                                    ELSE DefaultTempo,
                          !.PPQN = resolution,
                          !.first_note_index = r.idx],
          err |-> NoErr]

\* MidiMapper.update_midi_metadata: [m, err]
UpdateMidiMetadata(m) ==
    MetadataFrom(m, Timelines[m.midi].resolution,
                 FirstNoteScan(Timelines[m.midi].track,
                               [idx |-> 0, tempo |-> None, err |-> NoErr]))

\* MidiMapper.set_midi: [m, err]
SetMidi(m, midi) == UpdateMidiMetadata([m EXCEPT !.midi = midi])

\* Mutant of Embedding: the index j - 1 does not wrap around to the last id
Embedding_NoWrap(note_state) ==
    {PyIndex(note_state, j - 1) : j \in 1..(Len(note_state) - 1)}

\* The embedding built by the inner loop of enq_embeddings: 1 at
\* note_state[j - 1] for every j in range(len(note_state))
Embedding(note_state) ==
    {PyIndex(note_state, j - 1) : j \in 0..(Len(note_state) - 1)}

\* range(num_embeddings - 1): the number of iterations
EnqCount(num_embeddings) == Max(num_embeddings - 1, 0)

\* The for loop of enq_embeddings, making count embeddings: [q, err]
EnqLoop(m, note_state, q, count) ==
    IF count = 0 THEN [q |-> q, err |-> NoErr]
    ELSE IF \E i \in 1..Len(note_state) : note_state[i] >= m.lc_channels
    THEN [q |-> q, err |-> "IndexError"]
    ELSE [q |-> q \o [i \in 1..count |-> Embedding(note_state)], err |-> NoErr]

\* num_embeddings = upsample_time * self.sample_rate / 1000000, on ints
NumEmbeddings(v, m, tempo, delta_ticks) ==
    FloorMulDiv(TickDeltaToMicroseconds(v, tempo, m.PPQN, delta_ticks).n,
                m.sample_rate, MicrosPerSecond)

\* MidiMapper.enq_embeddings: [q, err], q the mapper queue afterwards.
\* Under Python 3 num_embeddings is a float and range() raises TypeError.
EnqEmbeddings(v, m, tempo, delta_ticks, note_state, q) ==
    IF m.PPQN = 0 THEN [q |-> q, err |-> "ZeroDivisionError"]
    ELSE IF v = 3 THEN [q |-> q, err |-> "TypeError"]
    ELSE EnqLoop(m, note_state, q,
                 EnqCount(NumEmbeddings(v, m, tempo, delta_ticks)))

(***************************************************************************)
(* The while loop of upsample.  Its state s is [counter, current_time,     *)
(* note_state, tempo, q, err, brk, printed, steps]: the locals,            *)
(* self.tempo, self.mapper_lc_q, the exception raised if any, whether the  *)
(* loop was left by break, the lines written to standard output, and a     *)
(* record of the passes made so far.                                       *)
(***************************************************************************)
\* self.enq_embeddings(delta_ticks, note_state)
EmitDelta(v, m, ev, s) ==
    [s EXCEPT !.q = EnqEmbeddings(v, m, s.tempo, ev.tick, s.note_state, s.q).q,
              !.err = EnqEmbeddings(v, m, s.tempo, ev.tick, s.note_state, s.q).err]

\* note_state.append(event_data[0])
AppendNote(s, id) ==
    IF s.err # NoErr THEN s
    ELSE [s EXCEPT !.note_state = Append(s.note_state, id)]

\* if event_data[0] in note_state: note_state.remove(event_data[0])
RemoveNote(s, id) ==
    IF s.err # NoErr \/ ~InList(id, s.note_state) THEN s
    ELSE [s EXCEPT !.note_state = PyRemove(s.note_state, id)]

\* self.tempo = int(tempo_binary, 2)
ChangeTempo(s, data) ==
    IF s.err # NoErr THEN s
    ELSE [s EXCEPT !.tempo = TempoOfData(data)]

\* The messages of upsample: the print of the final else branch, and the
\* alignment warning, whose print statement is commented out
UnrecognisedMessage == "Unrecognised MIDI event"
AlignmentWarning == "The given .wav file is longer than the matching MIDI file"

\* (end_time - current_time) > (self.PPQN / 2)
EndGapTest(v, m, s, end_time) ==
    IF end_time = Inf THEN TRUE
    ELSE RLess(PyDiv(v, m.PPQN, 2), RSub(end_time, s.current_time))

\* Mutant of EndOfTrackBranch: the loop is not left at End of Track
EndOfTrackBranch_NoBreak(v, m, s, end_time) == s

\* The End of Track branch: both arms of the test only break
EndOfTrackBranch(v, m, s, end_time) ==
    IF EndGapTest(v, m, s, end_time)
    THEN [s EXCEPT !.brk = TRUE]
    ELSE [s EXCEPT !.brk = TRUE]

\* Mutant of IgnoreEvent: an unrecognised event releases every note
IgnoreEvent_ReleaseAll(s) == [s EXCEPT !.note_state = <<>>]

\* The final else branch: print("Unrecognised MIDI event ...")
IgnoreEvent(s) == [s EXCEPT !.printed = Append(s.printed, UnrecognisedMessage)]

\* Mutant of UpsampleDispatch: a note event is applied to note_state before
\* the embeddings of its delta are emitted
UpsampleDispatch_ApplyFirst(v, m, ev, s, end_time) ==
    IF ev.name = NoteOnName
    THEN EmitDelta(v, m, ev, AppendNote(s, ev.data[1]))
    ELSE IF ev.name = NoteOffName
    THEN EmitDelta(v, m, ev, RemoveNote(s, ev.data[1]))
    ELSE IF ev.name = EndOfTrackName
    THEN EndOfTrackBranch(v, m, s, end_time)
    ELSE IF ev.name = SetTempoName /\ ev.tick = 0
    THEN ChangeTempo(s, ev.data)
    ELSE IF ev.name = SetTempoName
    THEN ChangeTempo(EmitDelta(v, m, ev, s), ev.data)
    ELSE IgnoreEvent(s)

\* The if/elif chain of the loop body over the event ev
UpsampleDispatch(v, m, ev, s, end_time) ==
    IF ev.name = NoteOnName /\ ev.tick = 0
    THEN AppendNote(s, ev.data[1])
    ELSE IF ev.name = NoteOnName
    THEN AppendNote(EmitDelta(v, m, ev, s), ev.data[1])
    ELSE IF ev.name = NoteOffName /\ ev.tick = 0
    THEN RemoveNote(s, ev.data[1])
    ELSE IF ev.name = NoteOffName
    THEN RemoveNote(EmitDelta(v, m, ev, s), ev.data[1])
    ELSE IF ev.name = EndOfTrackName
    THEN EndOfTrackBranch(v, m, s, end_time)
    ELSE IF ev.name = SetTempoName /\ ev.tick = 0
    THEN ChangeTempo(s, ev.data)
    ELSE IF ev.name = SetTempoName
    THEN ChangeTempo(EmitDelta(v, m, ev, s), ev.data)
    ELSE IgnoreEvent(s)

\* Mutant of AdvanceTo: counter is incremented after every event
AdvanceTo_Always(s, t, end_time) ==
    [s EXCEPT !.current_time = t, !.counter = s.counter + 1]

\* current_time is now t: counter += 1 only if current_time < end_time
AdvanceTo(s, t, end_time) ==
    [s EXCEPT !.current_time = t,
              !.counter = IF RLess(t, end_time) THEN s.counter + 1 ELSE s.counter]

\* The "increment" at the end of the loop body: current_time advances by the
\* event's delta at self.tempo as it is now
UpsampleIncrement(v, m, ev, s, end_time) ==
    IF s.err # NoErr \/ s.brk THEN s
    ELSE IF m.PPQN = 0 THEN [s EXCEPT !.err = "ZeroDivisionError"]
    ELSE AdvanceTo(s, RAdd(s.current_time,
                           TickDeltaToMicroseconds(v, s.tempo, m.PPQN, ev.tick)),
                   end_time)

\* What one pass of the loop body did, kept for the properties: the event,
\* and the locals before (pre) and after (post) the pass
StepRecord(ev, pre, post) ==
    [counter |-> pre.counter, ev |-> ev,
     note_before |-> pre.note_state, note_after |-> post.note_state,
     tempo_before |-> pre.tempo, tempo_after |-> post.tempo,
     time_before |-> pre.current_time, time_after |-> post.current_time,
     emitted |-> Len(post.q) - Len(pre.q),
     rows |-> DropRows(post.q, Len(pre.q)),
     counter_after |-> post.counter, err |-> post.err]

Recorded(ev, pre, post) ==
    [post EXCEPT !.steps = Append(pre.steps, StepRecord(ev, pre, post))]

\* One pass of the loop body: dispatch, then increment
UpsamplePass(v, m, ev, s, end_time) ==
    Recorded(ev, s,
             UpsampleIncrement(v, m, ev, UpsampleDispatch(v, m, ev, s, end_time),
                               end_time))

\* while current_time < end_time: ...
RECURSIVE UpsampleLoop(_, _, _, _, _)
UpsampleLoop(v, m, track, s, end_time) ==
    IF s.err # NoErr \/ s.brk \/ ~RLess(s.current_time, end_time) THEN s
    ELSE IF s.counter >= Len(track) THEN [s EXCEPT !.err = "IndexError"]
    ELSE UpsampleLoop(v, m, track,
                      UpsamplePass(v, m, track[s.counter + 1], s, end_time),
                      end_time)

\* The tail of upsample: embedding_vector has qsize rows, of which the first
\* qsize - 1 are taken from the queue and the last stays zero
DrainedVector(q) == TakeRows(q, Max(Len(q) - 1, 0)) \o Zeros(Len(q) - Max(Len(q) - 1, 0))
DrainedQueue(q) == DropRows(q, Max(Len(q) - 1, 0))

\* Mutant of StartTime: the start sample is not clamped at 0
StartTime_Unclamped(v, m, start_sample) ==
    SampleToMicroseconds(v, m, start_sample)

\* current_time = self.sample_to_microseconds(np.maximum(0, start_sample))
StartTime(v, m, start_sample) ==
    SampleToMicroseconds(v, m, Max(0, start_sample))

\* end_time: float('inf') for end_sample None
EndTime(v, m, end_sample) ==
    IF end_sample = None THEN Inf ELSE SampleToMicroseconds(v, m, end_sample)

\* The locals of upsample on entry to the while loop
LoopEntry(v, m, start_sample) ==
    [counter |-> m.first_note_index, current_time |-> StartTime(v, m, start_sample),
     note_state |-> <<>>, tempo |-> m.tempo, q |-> m.mapper_lc_q,
     err |-> NoErr, brk |-> FALSE, printed |-> <<>>, steps |-> <<>>]

\* upsample from the exit of the while loop in state s: an exception leaves
\* the method with self.tempo and the queue as they are; otherwise
\* first_note_index is saved, the queue drained and the pad put in front
UpsampleReturn(m, start_sample, s) ==
    IF s.err # NoErr
    THEN [m |-> [m EXCEPT !.tempo = s.tempo, !.mapper_lc_q = s.q],
          out |-> <<>>, err |-> s.err, loop |-> s]
    ELSE [m |-> [m EXCEPT !.tempo = s.tempo, !.mapper_lc_q = DrainedQueue(s.q),
                          !.first_note_index = s.counter],
          out |-> (IF start_sample < 0 THEN Zeros(Abs(start_sample)) ELSE <<>>)
                  \o DrainedVector(s.q),
          err |-> NoErr, loop |-> s]

\* MidiMapper.upsample(start_sample, end_sample): [m, out, err, loop], m the
\* mapper afterwards, out the returned array, loop the state at loop exit
Upsample(v, m, start_sample, end_sample) ==
    UpsampleReturn(m, start_sample,
                   UpsampleLoop(v, m, Timelines[m.midi].track,
                                LoopEntry(v, m, start_sample),
                                EndTime(v, m, end_sample)))

(***************************************************************************)
(* Engine specification: one MidiMapper driven by a single caller, as each *)
(* producer thread drives its own.  An exception ends the caller.          *)
(***************************************************************************)
EmptyQueue == [items |-> <<>>, taken |-> 0]

ReaderIdle ==
    /\ rcfg = 0
    /\ coord_stop = FALSE
    /\ q_audio = EmptyQueue
    /\ q_lc = EmptyQueue
    /\ th = <<>>

Init ==
    /\ py \in {2, 3}
    /\ cfg \in 1..Len(Configs)
    /\ mapper = NewMapper(Configs[cfg].sample_rate, Configs[cfg].lc_channels)
    /\ nfiles = 0
    /\ calls = <<>>
    /\ status = "ok"
    /\ ReaderIdle

\* The caller after a call of the mapper that returned r
MapperAfter(r) ==
    /\ mapper' = r.m
    /\ status' = IF r.err = NoErr THEN "ok" ELSE r.err

\* mapper.set_midi(midi)
DoSetMidi(midi) ==
    /\ status = "ok"
    /\ nfiles < MaxFiles
    /\ MapperAfter(SetMidi(mapper, midi))
    /\ nfiles' = nfiles + 1
    /\ calls' = <<>>
    /\ UNCHANGED <<py, cfg, rvars>>

\* The record of a call kept for the properties
CallRecord(start_sample, end_sample, pre, r) ==
    [start |-> start_sample, end |-> end_sample, out |-> r.out, err |-> r.err,
     pre |-> pre, post |-> r.m, loop |-> r.loop]

\* mapper.upsample(start_sample, end_sample)
DoUpsample(start_sample, end_sample) ==
    /\ status = "ok"
    /\ mapper.midi # None
    /\ Len(calls) < MaxCalls
    /\ MapperAfter(Upsample(py, mapper, start_sample, end_sample))
    /\ calls' = Append(calls,
                   CallRecord(start_sample, end_sample, mapper,
                              Upsample(py, mapper, start_sample, end_sample)))
    /\ UNCHANGED <<py, cfg, nfiles, rvars>>

Next ==
    \/ \E midi \in Configs[cfg].files : DoSetMidi(midi)
    \/ \E a \in Configs[cfg].starts, b \in Configs[cfg].ends : DoUpsample(a, b)

Spec == Init /\ [][Next]_vars
(***************************************************************************)
(* Properties of the engine (specification Spec)                           *)
(***************************************************************************)
\* A newly constructed mapper of the current configuration, given midi
FreshMapper(midi) ==
    SetMidi(NewMapper(Configs[cfg].sample_rate, Configs[cfg].lc_channels), midi).m

Returned(c) == c.err = NoErr

\* C1: with resolution 480, tempo 500000 and sample_rate 16000, the timeline
\* NoteOn(60) delta 0, NoteOn(64) delta 240, EndOfTrack delta 0 upsampled by
\* upsample(0, 5000) on a freshly set mapper gives 4000 rows with only
\* channel 60 set followed by 1000 rows with exactly channels 60 and 64 set.
C1_ConcreteScenario ==
    (/\ Configs[cfg].sample_rate = 16000
     /\ nfiles = 1 /\ mapper.midi = 6
     /\ Len(calls) = 1 /\ calls[1].start = 0 /\ calls[1].end = 5000)
    => /\ Returned(calls[1])
       /\ calls[1].out = [i \in 1..5000 |-> IF i <= 4000 THEN {60} ELSE {60, 64}]

\* The call that returned r returned normally, with the array rows
ReturnsRows(r, rows) == r.err = NoErr /\ r.out = rows

\* C2: resumability: upsample(0, k) followed by upsample(k, n) on one mapper
\* after set_midi returns arrays whose concatenation is the array a single
\* upsample(0, n) returns on a second mapper given the same timeline.
C2_Resumable ==
    (/\ nfiles = 1 /\ Len(calls) = 2
     /\ calls[1].start = 0 /\ calls[1].end # None
     /\ calls[2].start = calls[1].end /\ calls[2].end # None
     /\ calls[1].end <= calls[2].end
     /\ Returned(calls[1]) /\ Returned(calls[2]))
    => ReturnsRows(Upsample(py, FreshMapper(mapper.midi), 0, calls[2].end),
                   calls[1].out \o calls[2].out)

\* The embeddings enq_embeddings put on the queue during call c, in order
EmittedDuring(c) == DropRows(c.loop.q, Len(c.pre.mapper_lc_q))

\* C5: whenever upsample returns, the mapper's internal queue is empty and
\* the rows returned after the negative-start zero pad are exactly the
\* embeddings emitted by enq_embeddings during that call, in emission order.
C5_NoHiddenQueueState ==
    \A i \in 1..Len(calls) :
        Returned(calls[i]) =>
            /\ calls[i].post.mapper_lc_q = <<>>
            /\ DropRows(calls[i].out, Max(0, 0 - calls[i].start))
                   = EmittedDuring(calls[i])

\* The results [out, err] of making the calls of cs, in order, on mapper m;
\* ReplayRest: the first of them returned r
RECURSIVE Replay(_, _), ReplayRest(_, _)
ReplayRest(r, cs) ==
    <<[out |-> r.out, err |-> r.err]>>
    \o (IF r.err = NoErr THEN Replay(r.m, cs) ELSE <<>>)
Replay(m, cs) ==
    IF cs = <<>> THEN <<>>
    ELSE ReplayRest(Upsample(py, m, Head(cs).start, Head(cs).end), Tail(cs))

\* C6: the engine is stateless across files: after set_midi(T) on a mapper
\* that has processed other timelines, every sequence of upsample calls
\* returns what the same calls return on a freshly constructed mapper after
\* set_midi(T).
C6_StatelessAcrossFiles ==
    (nfiles >= 1 /\ mapper.midi # None /\ calls # <<>>)
    => Replay(FreshMapper(mapper.midi), calls)
           = [i \in 1..Len(calls) |-> [out |-> calls[i].out, err |-> calls[i].err]]

\* Call c, of negative start, did what r did, with the pad in front
PadThen(c, r) ==
    /\ c.err = r.err
    /\ c.post = r.m
    /\ Returned(c) => c.out = Zeros(0 - c.start) \o r.out

C8_ZeroLengthCall ==
    \A i \in 1..Len(calls) :
        (calls[i].end # None /\ calls[i].start = calls[i].end /\ calls[i].start >= 0)
        => /\ Returned(calls[i])
           /\ calls[i].out = <<>>
           /\ calls[i].post = calls[i].pre

NoDuplicates(seq) ==
    \A i, j \in 1..Len(seq) : seq[i] = seq[j] => i = j

\* C9: the set of active notes never holds a duplicate id (a NoteOn for an
\* id that is already active is a no-op).
C9_NoDuplicateActiveNotes ==
    \A i \in 1..Len(calls) :
        \A k \in 1..Len(calls[i].loop.steps) :
            NoDuplicates(calls[i].loop.steps[k].note_after)

\* C10: a NoteOff, with zero or nonzero delta, for an id that is not active
\* raises no error and leaves the set of active notes unchanged.
C10_DanglingNoteOff ==
    \A i \in 1..Len(calls) :
        \A k \in 1..Len(calls[i].loop.steps) :
            LET st == calls[i].loop.steps[k] IN
            (st.ev.name = NoteOffName /\ ~InList(st.ev.data[1], st.note_before))
            => st.err = NoErr /\ st.note_after = st.note_before
\* The end time of call c, and the track of the file it was made on
EndTimeOf(c) == EndTime(py, c.pre, c.end)
TrackOf(c) == Timelines[c.pre.midi].track

\* Call c printed the alignment warning
Warned(c) == InList(AlignmentWarning, c.loop.printed)

\* At the exit of the loop of call c, end_time - current_time exceeds half
\* a beat in microseconds, tempo / 2
GapExceedsHalfBeat(c) ==
    IF c.end = None THEN TRUE
    ELSE RLess(Rat(c.loop.tempo, 2), RSub(EndTimeOf(c), c.loop.current_time))

\* C11: when upsample reaches End of Track, the alignment warning is
\* reported if and only if end_time - current_time exceeds half a beat in
\* microseconds (tempo / 2); in either case the call returns normally.
C11_EndOfTrackWarning ==
    \A i \in 1..Len(calls) :
        calls[i].loop.brk =>
            /\ Returned(calls[i])
            /\ Warned(calls[i]) <=> GapExceedsHalfBeat(calls[i])

\* The loop of call c came to an event index past the last event of the
\* track with current_time < end_time
PastLastEvent(c) ==
    /\ ~c.loop.brk
    /\ c.loop.counter >= Len(TrackOf(c))
    /\ RLess(c.loop.current_time, EndTimeOf(c))

\* C12: if the event index moves past the last event of the track while
\* current_time < end_time, upsample does not fail: it returns normally.
C12_PastLastEvent ==
    \A i \in 1..Len(calls) :
        PastLastEvent(calls[i]) => Returned(calls[i])

\* Call c processed a Note On whose id is not below lc_channels
HasOutOfRangeNoteOn(c) ==
    \E k \in 1..Len(c.loop.steps) :
        /\ c.loop.steps[k].ev.name = NoteOnName
        /\ c.loop.steps[k].ev.data[1] >= c.pre.lc_channels

\* The ids of note_state that are below lc_channels
InRange(note_state, lc_channels) ==
    {note_state[j] : j \in 1..Len(note_state)} \cap 0..(lc_channels - 1)

\* C13: a Note On whose id is >= lc_channels never makes upsample fail: the
\* id is dropped and every emitted embedding has 1 only at the in-range
\* active ids.
C13_OutOfRangeNoteDropped ==
    \A i \in 1..Len(calls) :
        HasOutOfRangeNoteOn(calls[i]) =>
            /\ calls[i].err # "IndexError"
            /\ \A k \in 1..Len(calls[i].loop.steps) :
                   \A r \in 1..Len(calls[i].loop.steps[k].rows) :
                       calls[i].loop.steps[k].rows[r]
                           = InRange(calls[i].loop.steps[k].note_before,
                                     calls[i].pre.lc_channels)

\* Timeline t has resolution 0 or a Set Tempo event of value 0
ZeroTimeline(t) ==
    \/ t.resolution = 0
    \/ \E k \in 1..Len(t.track) :
           t.track[k].name = SetTempoName /\ TempoOfData(t.track[k].data) = 0

\* C14: a timeline with resolution 0 or with a tempo change of value 0 is
\* rejected by set_midi, so tempo > 0 and resolution > 0 in every state in
\* which upsample runs, and no upsample call divides by zero.
C14_ZeroRejectedAtSetMidi ==
    /\ (mapper.midi # None /\ ZeroTimeline(Timelines[mapper.midi]))
           => status # "ok" /\ calls = <<>>
    /\ \A i \in 1..Len(calls) :
           /\ calls[i].pre.tempo > 0 /\ calls[i].pre.PPQN > 0
           /\ calls[i].loop.tempo > 0
           /\ calls[i].err # "ZeroDivisionError"
\* The event of step st is one whose branch emits embeddings for its delta
EmitsForDelta(st) ==
    st.ev.name \in {NoteOnName, NoteOffName, SetTempoName} /\ st.ev.tick # 0

\* Step st of call c converted its delta with tempo: the embeddings it
\* emitted are those of that time, and current_time advanced by that time
ConvertedWith(c, st, tempo) ==
    /\ st.time_after
           = RAdd(st.time_before,
                  TickDeltaToMicroseconds(py, tempo, c.pre.PPQN, st.ev.tick))
    /\ EmitsForDelta(st)
           => st.emitted = EnqCount(NumEmbeddings(py, c.pre, tempo, st.ev.tick))

\* Step st ran its branch and its increment without an exception
Completed(st) == st.err = NoErr /\ st.ev.name # EndOfTrackName

\* C15: for every event, a tempo change with nonzero delta included, the
\* delta is converted to time with the tempo in effect before the event is
\* dispatched; that one time value gives the number of embeddings emitted
\* for the event and is the amount added to current_time.
C15_DeltaAtOldTempo ==
    \A i \in 1..Len(calls) :
        \A k \in 1..Len(calls[i].loop.steps) :
            Completed(calls[i].loop.steps[k])
                => ConvertedWith(calls[i], calls[i].loop.steps[k],
                                 calls[i].loop.steps[k].tempo_before)

ZeroDeltaTempoChange(st) ==
    st.ev.name = SetTempoName /\ st.ev.tick = 0 /\ st.err = NoErr

\* C16: when several tempo changes with delta 0 follow one another, each
\* emits nothing and advances no time, and the next nonzero delta is
\* converted with the value of the last of them.
C16_LastZeroDeltaTempoWins ==
    \A i \in 1..Len(calls) :
        \A k \in 1..Len(calls[i].loop.steps) :
            ZeroDeltaTempoChange(calls[i].loop.steps[k]) =>
                /\ calls[i].loop.steps[k].emitted = 0
                /\ calls[i].loop.steps[k].time_after
                       = calls[i].loop.steps[k].time_before
                /\ (/\ k < Len(calls[i].loop.steps)
                    /\ calls[i].loop.steps[k + 1].ev.tick # 0
                    /\ Completed(calls[i].loop.steps[k + 1]))
                   => ConvertedWith(calls[i], calls[i].loop.steps[k + 1],
                                    TempoOfData(calls[i].loop.steps[k].ev.data))

\* x * a / b for a rational x and positive ints a, b
RMulDiv(x, a, b) ==
    Rat(x.n * (a \div GCD(a, b)), x.d * (b \div GCD(a, b)))

\* round(x) for a rational x >= 0, ties to even
RoundParts(q, r, d) ==
    IF 2 * r < d THEN q
    ELSE IF 2 * r > d THEN q + 1
    ELSE IF q % 2 = 0 THEN q ELSE q + 1
Round(x) == RoundParts(x.n \div x.d, x.n % x.d, x.d)

\* round(time_delta * sample_rate / 1000000), time_delta = tempo *
\* delta_ticks / resolution
RoundedSamples(m, tempo, delta_ticks) ==
    Round(RMulDiv(Rat(tempo * delta_ticks, m.PPQN), m.sample_rate,
                  MicrosPerSecond))

\* C17: for every NoteOn, NoteOff or tempo change with delta_ticks # 0 the
\* number of embeddings emitted for the event is
\* round(time_delta * sample_rate / 1000000).
C17_EmissionCount ==
    \A i \in 1..Len(calls) :
        \A k \in 1..Len(calls[i].loop.steps) :
            (EmitsForDelta(calls[i].loop.steps[k]) /\ calls[i].pre.PPQN > 0)
            => /\ calls[i].loop.steps[k].err = NoErr
               /\ calls[i].loop.steps[k].emitted
                      = RoundedSamples(calls[i].pre,
                                       calls[i].loop.steps[k].tempo_before,
                                       calls[i].loop.steps[k].ev.tick)
\* The loop of call c ended because current_time reached end_time: the
\* events of the timeline cover the requested range
CoversRange(c) ==
    c.end # None /\ ~RLess(c.loop.current_time, EndTimeOf(c))

\* C18: for every call upsample(start_sample, end_sample) with
\* 0 <= start_sample <= end_sample on a timeline whose events cover the
\* range, the number of rows returned differs from end_sample -
\* start_sample by at most 1.
C18_RowCountWithinOne ==
    \A i \in 1..Len(calls) :
        (/\ calls[i].end # None
         /\ 0 <= calls[i].start /\ calls[i].start <= calls[i].end
         /\ CoversRange(calls[i]))
        => /\ Returned(calls[i])
           /\ Abs(Len(calls[i].out) - (calls[i].end - calls[i].start)) <= 1

\* C19: note state persists across calls: a note that is active when one
\* upsample call returns is active when the next call on the same mapper
\* and timeline processes its first event.
C19_NoteStatePersists ==
    \A i \in 2..Len(calls) :
        (Returned(calls[i - 1]) /\ calls[i].loop.steps # <<>>)
        => \A j \in 1..Len(calls[i - 1].loop.note_state) :
               InList(calls[i - 1].loop.note_state[j],
                      calls[i].loop.steps[1].note_before)

\* The event of step st is a Note On or a Note Off
NoteEvent(st) == st.ev.name \in {NoteOnName, NoteOffName}

\* Every embedding step st emitted has 1 exactly at the ids of note_state
RowsReflect(st, note_state) ==
    \A r \in 1..Len(st.rows) :
        st.rows[r] = {note_state[j] : j \in 1..Len(note_state)}

\* C20: every embedding emitted for the delta of a NoteOn or NoteOff event
\* reflects the set of active notes as it was before the event is applied.
C20_PreEventState ==
    \A i \in 1..Len(calls) :
        \A k \in 1..Len(calls[i].loop.steps) :
            NoteEvent(calls[i].loop.steps[k])
                => RowsReflect(calls[i].loop.steps[k],
                               calls[i].loop.steps[k].note_before)

\* C20 witness: one call emitted embeddings for the delta of a Note On of an
\* inactive id while another note was held, and for the delta of a Note Off
\* of an active id
C20_Witness ==
    \E i \in 1..Len(calls) :
        /\ \E k \in 1..Len(calls[i].loop.steps) :
               /\ calls[i].loop.steps[k].ev.name = NoteOnName
               /\ calls[i].loop.steps[k].rows # <<>>
               /\ calls[i].loop.steps[k].note_before # <<>>
               /\ ~InList(calls[i].loop.steps[k].ev.data[1],
                          calls[i].loop.steps[k].note_before)
               /\ calls[i].loop.steps[k].note_after
                      # calls[i].loop.steps[k].note_before
        /\ \E k \in 1..Len(calls[i].loop.steps) :
               /\ calls[i].loop.steps[k].ev.name = NoteOffName
               /\ calls[i].loop.steps[k].rows # <<>>
               /\ InList(calls[i].loop.steps[k].ev.data[1],
                         calls[i].loop.steps[k].note_before)
               /\ calls[i].loop.steps[k].note_after
                      # calls[i].loop.steps[k].note_before
\* Step st of call c followed the rule of the increment
IncrementRule(c, st) ==
    st.counter_after = IF RLess(st.time_after, EndTimeOf(c))
                       THEN st.counter + 1 ELSE st.counter

\* The last pass of the loop of call c
LastStep(c) == c.loop.steps[Len(c.loop.steps)]

\* Call c returned after at least one pass without reaching End of Track
StoppedByTime(c) == Returned(c) /\ ~c.loop.brk /\ c.loop.steps # <<>>

\* C21: the event index is incremented after an event only if current_time
\* is still below end_time after adding the event's delta; a call that
\* returns without reaching End of Track stores the index of the event whose
\* delta crossed end_time, and the next call reads that event first.
C21_IndexAdvanceRule ==
    \A i \in 1..Len(calls) :
        /\ \A k \in 1..Len(calls[i].loop.steps) :
               Completed(calls[i].loop.steps[k])
                   => IncrementRule(calls[i], calls[i].loop.steps[k])
        /\ StoppedByTime(calls[i])
               => /\ ~RLess(LastStep(calls[i]).time_after, EndTimeOf(calls[i]))
                  /\ calls[i].post.first_note_index = LastStep(calls[i]).counter
        /\ (i < Len(calls) /\ Returned(calls[i]) /\ calls[i + 1].loop.steps # <<>>)
               => /\ calls[i + 1].loop.steps[1].counter
                         = calls[i].post.first_note_index
                  /\ calls[i + 1].loop.steps[1].ev
                         = TrackOf(calls[i])[calls[i].post.first_note_index + 1]

\* C21 witness: a bounded call moved the index forward and stopped at the
\* event that crossed end_time, and the next call read that event first
C21_Witness ==
    \E i \in 1..Len(calls) :
        /\ i < Len(calls) /\ calls[i].end # None /\ StoppedByTime(calls[i])
        /\ LastStep(calls[i]).counter > calls[i].pre.first_note_index
        /\ calls[i + 1].loop.steps # <<>>
        /\ calls[i + 1].loop.steps[1].ev = LastStep(calls[i]).ev
        /\ calls[i + 1].loop.steps[1].counter = LastStep(calls[i]).counter

\* The event of step st is none of Note On, Note Off, Set Tempo, End of Track
OtherEvent(st) ==
    st.ev.name \notin {NoteOnName, NoteOffName, SetTempoName, EndOfTrackName}

\* C22: an event that is none of NoteOn, NoteOff, SetTempo, EndOfTrack
\* leaves the active notes and the tempo unchanged, emits no embeddings and
\* raises no error, for zero and nonzero delta alike.
C22_OtherEventsIgnored ==
    \A i \in 1..Len(calls) :
        \A k \in 1..Len(calls[i].loop.steps) :
            OtherEvent(calls[i].loop.steps[k])
                => /\ calls[i].loop.steps[k].err = NoErr
                   /\ calls[i].loop.steps[k].note_after
                          = calls[i].loop.steps[k].note_before
                   /\ calls[i].loop.steps[k].tempo_after
                          = calls[i].loop.steps[k].tempo_before
                   /\ calls[i].loop.steps[k].emitted = 0

\* C22 witness: one call passed an other event of delta 0 and one of nonzero
\* delta, each while a note was held
C22_Witness ==
    \E i \in 1..Len(calls) :
        /\ \E k \in 1..Len(calls[i].loop.steps) :
               /\ OtherEvent(calls[i].loop.steps[k])
               /\ calls[i].loop.steps[k].ev.tick = 0
               /\ calls[i].loop.steps[k].note_before # <<>>
        /\ \E k \in 1..Len(calls[i].loop.steps) :
               /\ OtherEvent(calls[i].loop.steps[k])
               /\ calls[i].loop.steps[k].ev.tick # 0
               /\ calls[i].loop.steps[k].note_before # <<>>
               /\ RLess(calls[i].loop.steps[k].time_before,
                        calls[i].loop.steps[k].time_after)

\* Every id of note_state is a channel index
AllInRange(note_state, lc_channels) ==
    \A j \in 1..Len(note_state) :
        0 <= note_state[j] /\ note_state[j] < lc_channels

\* C23: every embedding built by enq_embeddings from a note state whose ids
\* are all below lc_channels has 1 at index i exactly when i is in the note
\* state and 0 elsewhere, for every note-state size including 0 and 1.
C23_EmbeddingShape ==
    \A i \in 1..Len(calls) :
        \A k \in 1..Len(calls[i].loop.steps) :
            AllInRange(calls[i].loop.steps[k].note_before, calls[i].pre.lc_channels)
            => \A r \in 1..Len(calls[i].loop.steps[k].rows) :
                   \A ch \in 0..(calls[i].pre.lc_channels - 1) :
                       ch \in calls[i].loop.steps[k].rows[r]
                           <=> InList(ch, calls[i].loop.steps[k].note_before)

\* Call c has a pass that emitted embeddings from a note state of n ids
EmittedFromSize(c, n) ==
    \E k \in 1..Len(c.loop.steps) :
        c.loop.steps[k].rows # <<>> /\ Len(c.loop.steps[k].note_before) = n

\* C23 witness: one call emitted embeddings from note states of 0, 1 and 2 ids
C23_Witness ==
    \E i \in 1..Len(calls) :
        /\ EmittedFromSize(calls[i], 0)
        /\ EmittedFromSize(calls[i], 1)
        /\ EmittedFromSize(calls[i], 2)
\* The 0-based indices of the Note On events and of the End of Track events
\* of track that are not before its first Note On
NoteOnIndices(track) == {k - 1 : k \in {j \in 1..Len(track) : track[j].name = NoteOnName}}
Least(S) == CHOOSE x \in S : \A y \in S : x <= y
EndIndices(track) ==
    {k - 1 : k \in {j \in 1..Len(track) :
                        /\ track[j].name = EndOfTrackName
                        /\ \E n \in NoteOnIndices(track) : n <= j - 1}}

\* The track has an End of Track event at or after its first Note On
EndsAfterFirstNote(track) == EndIndices(track) # {}

\* C27: for every track with an End of Track event at or after its first
\* Note On, upsample terminates for every start_sample and end_sample: the
\* loop makes at most one pass per event from the cursor to that End of
\* Track, and the event index never moves past it in any later call.
C27_TerminatesAtEndOfTrack ==
    \A i \in 1..Len(calls) :
        EndsAfterFirstNote(TrackOf(calls[i])) =>
            /\ calls[i].pre.first_note_index <= Least(EndIndices(TrackOf(calls[i])))
            /\ calls[i].loop.counter <= Least(EndIndices(TrackOf(calls[i])))
            /\ calls[i].post.first_note_index <= Least(EndIndices(TrackOf(calls[i])))
            /\ Len(calls[i].loop.steps)
                   <= Least(EndIndices(TrackOf(calls[i])))
                          - calls[i].pre.first_note_index + 1
            /\ \A k \in 1..Len(calls[i].loop.steps) :
                   k < Len(calls[i].loop.steps)
                       => calls[i].loop.steps[k].counter_after
                              = calls[i].loop.steps[k].counter + 1

\* C27 witness: an unbounded call ran to End of Track, and a further call,
\* started with the cursor on End of Track, returned leaving it there
C27_Witness ==
    \E i \in 1..Len(calls) :
        /\ i < Len(calls)
        /\ calls[i].end = None /\ Returned(calls[i]) /\ calls[i].loop.brk
        /\ Len(calls[i].loop.steps) > 2
        /\ calls[i + 1].pre.first_note_index
               = Least(EndIndices(TrackOf(calls[i + 1])))
        /\ Returned(calls[i + 1]) /\ calls[i + 1].loop.brk
        /\ calls[i + 1].post.first_note_index = calls[i + 1].pre.first_note_index

\* The sum of the deltas of the first n events of track
RECURSIVE SumTicks(_, _)
SumTicks(track, n) ==
    IF n = 0 THEN 0 ELSE SumTicks(track, n - 1) + track[n].tick

\* C28: the position at which the first note becomes active is the summed
\* time of the deltas of all track events up to and including the first
\* Note On: deltas of events before the first Note On are not dropped.
C28_LeadingDeltasKept ==
    (/\ Len(calls) >= 1 /\ calls[1].start <= 0
     /\ calls[1].pre.PPQN > 0
     /\ calls[1].loop.steps # <<>>
     /\ Completed(calls[1].loop.steps[1]))
    => /\ calls[1].loop.steps[1].ev.name = NoteOnName
       /\ calls[1].loop.steps[1].time_after
              = TickDeltaToMicroseconds(
                    py, calls[1].pre.tempo, calls[1].pre.PPQN,
                    SumTicks(TrackOf(calls[1]), calls[1].pre.first_note_index + 1))
(***************************************************************************)
(* LCAudioReader: producer threads running input_stream.                   *)
(*                                                                         *)
(* A file is [n, midi]: the number of samples librosa.load returns for it  *)
(* and the timeline midi.read_midifile returns for the .mid beside it.  An *)
(* audio row is <<file, index>>, the zero sample of the pad <<0, 0>>.      *)
(* sample_size 0 stands for a sample_size that is None or 0 (not chopped). *)
(* gc_enabled and silence_threshold keep their defaults (False, None).     *)
(***************************************************************************)
ReaderConfigs == <<
    \* chopped, one producer
    [receptive_field |-> 2, sample_size |-> 2, lc_enabled |-> TRUE,
     sample_rate |-> 8000, lc_channels |-> 3, q_size |-> 2, n_threads |-> 1,
     files |-> <<[n |-> 3, midi |-> 4], [n |-> 5, midi |-> 1]>>],
    \* whole files, one producer
    [receptive_field |-> 2, sample_size |-> 0, lc_enabled |-> TRUE,
     sample_rate |-> 8000, lc_channels |-> 3, q_size |-> 2, n_threads |-> 1,
     files |-> <<[n |-> 2, midi |-> 1], [n |-> 6, midi |-> 5], [n |-> 1, midi |-> 7]>>],
    \* whole files, two producers
    [receptive_field |-> 1, sample_size |-> 0, lc_enabled |-> TRUE,
     sample_rate |-> 8000, lc_channels |-> 3, q_size |-> 2, n_threads |-> 2,
     files |-> <<[n |-> 2, midi |-> 7], [n |-> 1, midi |-> 1]>>],
    \* chopped, no local conditioning
    [receptive_field |-> 1, sample_size |-> 2, lc_enabled |-> FALSE,
     sample_rate |-> 8000, lc_channels |-> 3, q_size |-> 2, n_threads |-> 1,
     files |-> <<[n |-> 3, midi |-> 1]>>]
>>

RC == ReaderConfigs[rcfg]
Threads == 1..RC.n_threads

\* librosa.load(filename) reshaped to a column: the samples of file f
LoadAudio(f) == [i \in 1..RC.files[f].n |-> <<f, i>>]

\* np.pad(audio, [[receptive_field, 0], [0, 0]], 'constant')
PadAudio(audio) == [i \in 1..RC.receptive_field |-> <<0, 0>>] \o audio

\* The locals of input_stream before its first file
NewThread(c) ==
    [pc |-> "file", mapper |-> NewMapper(c.sample_rate, c.lc_channels),
     left |-> 0, reads |-> 0, file |-> 0, chunk |-> 0,
     audio |-> <<>>, piece |-> <<>>, lc_embeddings |-> <<>>, lc_set |-> None,
     err |-> NoErr]

InitReader ==
    /\ py \in {2, 3}
    /\ cfg = 1
    /\ mapper = NewMapper(Configs[1].sample_rate, Configs[1].lc_channels)
    /\ nfiles = 0
    /\ calls = <<>>
    /\ status = "ok"
    /\ rcfg \in 1..Len(ReaderConfigs)
    /\ coord_stop = FALSE
    /\ q_audio = EmptyQueue
    /\ q_lc = EmptyQueue
    /\ th = [t \in 1..ReaderConfigs[rcfg].n_threads |-> NewThread(ReaderConfigs[rcfg])]

QueueFull(q) == Len(q.items) - q.taken >= RC.q_size
Enqueue(q, item) == [q EXCEPT !.items = Append(q.items, item)]

\* The result u of upsample with the mapper as set_midi left it
ChoppedResult(u, set) == [m |-> u.m, out |-> u.out, err |-> u.err, set |-> set]

\* Mutant of ChoppedUpsample: the timeline is upsampled from sample 0,
\* without the rows of the pad
ChoppedUpsample_FromZero(sm) ==
    IF sm.err # NoErr
    THEN [m |-> sm.m, out |-> <<>>, err |-> sm.err, set |-> sm.m]
    ELSE [m |-> Upsample(py, sm.m, 0, None).m,
          out |-> Upsample(py, sm.m, 0, None).out,
          err |-> Upsample(py, sm.m, 0, None).err, set |-> sm.m]

\* upsample(start_sample = -receptive_field) after set_midi returned sm;
\* set keeps, for the properties, the mapper as set_midi left it
ChoppedUpsample(sm) ==
    IF sm.err # NoErr
    THEN [m |-> sm.m, out |-> <<>>, err |-> sm.err, set |-> sm.m]
    ELSE ChoppedResult(Upsample(py, sm.m, 0 - RC.receptive_field, None), sm.m)

\* The chopped path before its while loop: mapper.set_midi(lc_timeseries),
\* then lc_embeddings = mapper.upsample(...); [m, out, err]
ChoppedPrepare(m, midi) == ChoppedUpsample(SetMidi(m, midi))

\* while len(audio) > self.receptive_field
ChopTest(me) ==
    [me EXCEPT !.pc = IF Len(me.audio) > RC.receptive_field
                      THEN "enq_audio" ELSE "file"]

\* The thread after ChoppedPrepare returned prep: an exception ends it
WithLc(me, prep) ==
    IF prep.err # NoErr
    THEN [me EXCEPT !.pc = "dead", !.err = prep.err, !.mapper = prep.m]
    ELSE ChopTest([me EXCEPT !.mapper = prep.m, !.lc_embeddings = prep.out,
                             !.lc_set = prep.set])

\* From the pad of the audio to the first enqueue of the file
Prepared(me) ==
    IF RC.sample_size # 0 /\ RC.lc_enabled
    THEN WithLc(me, ChoppedPrepare(me.mapper, RC.files[me.file].midi))
    ELSE IF RC.sample_size # 0 THEN ChopTest(me)
    ELSE [me EXCEPT !.pc = "enq_audio"]

\* Mutant of AfterStopCheck: coord.should_stop() is not consulted
AfterStopCheck_Never(me) ==
    Prepared([me EXCEPT !.audio = PadAudio(me.audio)])

\* if self.coord.should_stop(): stop = True; break
AfterStopCheck(me) ==
    IF coord_stop THEN [me EXCEPT !.pc = "done"]
    ELSE Prepared([me EXCEPT !.audio = PadAudio(me.audio)])

\* load_files yields file f: a new pass, with a new mapper, when the last
\* pass is exhausted
Taken(me, f) ==
    [me EXCEPT !.mapper = IF me.left = 0
                          THEN NewMapper(RC.sample_rate, RC.lc_channels)
                          ELSE me.mapper,
               !.left = (IF me.left = 0 THEN Len(RC.files) ELSE me.left) - 1,
               !.reads = me.reads + 1, !.file = f, !.chunk = 0,
               !.audio = LoadAudio(f)]

\* The for loop of input_stream takes the next file from load_files, checks
\* coord.should_stop(), pads the audio and, when chopping with local
\* conditioning, upsamples the whole timeline.
NextFile(t, f) ==
    /\ th[t].pc = "file"
    /\ th[t].reads < MaxReads
    /\ th' = [th EXCEPT ![t] = AfterStopCheck(Taken(th[t], f))]
    /\ UNCHANGED <<mvars, rcfg, coord_stop, q_audio, q_lc>>

\* lc_embeddings = lc_embeddings[self.sample_size:, :], the last statement
\* of the chopping loop, outside `if self.lc_enabled`: without local
\* conditioning lc_embeddings was never assigned and the read raises
\* UnboundLocalError
ShiftLc(me) ==
    IF RC.lc_enabled
    THEN ChopTest([me EXCEPT
             !.lc_embeddings = DropRows(me.lc_embeddings, RC.sample_size)])
    ELSE [me EXCEPT !.pc = "dead", !.err = "UnboundLocalError"]

\* After a chunk is queued: audio = audio[sample_size:], lc_embeddings =
\* lc_embeddings[sample_size:], and the while test; a whole file is done.
\* chunk counts the iterations of the chopping loop begun for the file.
Advance(me) ==
    IF RC.sample_size = 0 THEN [me EXCEPT !.pc = "file"]
    ELSE ShiftLc([me EXCEPT !.audio = DropRows(me.audio, RC.sample_size),
                            !.chunk = me.chunk + 1])

\* piece = audio[:(receptive_field + sample_size), :], or the whole audio
Piece(me) ==
    IF RC.sample_size # 0
    THEN TakeRows(me.audio, RC.receptive_field + RC.sample_size)
    ELSE me.audio

AfterEnqAudio(me) ==
    IF RC.lc_enabled THEN [me EXCEPT !.pc = "enq_lc"] ELSE Advance(me)

\* sess.run(self.enq_audio, ...): the piece (chopped) or the whole audio.
\* The item keeps, for the properties, the file and chunk it was cut from
\* and whether a stop had been requested when it was queued.
EnqAudio(t) ==
    /\ th[t].pc = "enq_audio"
    /\ ~QueueFull(q_audio)
    /\ q_audio' = Enqueue(q_audio, [data |-> Piece(th[t]), file |-> th[t].file,
                                    chunk |-> th[t].chunk, stopped |-> coord_stop])
    /\ th' = [th EXCEPT ![t] = AfterEnqAudio([th[t] EXCEPT !.piece = Piece(th[t])])]
    /\ UNCHANGED <<mvars, rcfg, coord_stop, q_lc>>

\* Chopped path: the chunk of n rows wanted, padded or truncated to it
ChoppedAlign(lc_embeddings_chunk, n) ==
    IF n - Len(lc_embeddings_chunk) > 0
    THEN lc_embeddings_chunk \o Zeros(n - Len(lc_embeddings_chunk))
    ELSE IF n - Len(lc_embeddings_chunk) < 0
    THEN TakeRows(lc_embeddings_chunk,
                  Len(lc_embeddings_chunk) + (n - Len(lc_embeddings_chunk)))
    ELSE lc_embeddings_chunk

\* Whole-file path: delta_len = n - len(lc_encode); for delta_len < 0
\* lc_encode[0 : len(lc_encode) + delta_len - 1 : 1]
WholeAlign(lc_encode, n) ==
    IF n - Len(lc_encode) > 0
    THEN lc_encode \o Zeros(n - Len(lc_encode))
    ELSE IF n - Len(lc_encode) < 0
    THEN TakeRows(lc_encode, Len(lc_encode) + (n - Len(lc_encode)) - 1)
    ELSE lc_encode

\* np.concatenate((lc_encode_prepad, lc_encode)) after upsample() returned u
WholePrepad(u, set) ==
    [m |-> u.m, engine |-> Zeros(RC.receptive_field) \o u.out, err |-> u.err,
     set |-> set]

\* lc_encode = mapper.upsample() after set_midi returned sm
WholeUpsample(sm) ==
    IF sm.err # NoErr
    THEN [m |-> sm.m, engine |-> <<>>, err |-> sm.err, set |-> sm.m]
    ELSE WholePrepad(Upsample(py, sm.m, 0, None), sm.m)

\* The local conditioning of the audio just queued, before it is padded or
\* truncated: [m, engine, err].  Chopped: the next rows of lc_embeddings.
\* Whole file: set_sample_range, set_midi, upsample(), prepad.
LcEncode(me) ==
    IF RC.sample_size # 0
    THEN [m |-> me.mapper, err |-> NoErr, set |-> me.lc_set,
          engine |-> TakeRows(me.lc_embeddings, RC.receptive_field + RC.sample_size)]
    ELSE WholeUpsample(SetMidi(SetSampleRange(me.mapper, 0, Len(me.audio)),
                               RC.files[me.file].midi))

\* The array given to enq_lc
Aligned(engine, n) ==
    IF RC.sample_size # 0 THEN ChoppedAlign(engine, n) ELSE WholeAlign(engine, n)

\* What is queued on q_lc: the array, and for the properties the file and
\* chunk it was made for, the rows of the audio queued with it, the array
\* before pad or truncate and the mapper as set_midi left it for the file
LcItem(me, engine, set) ==
    [data |-> Aligned(engine, Len(me.piece)), file |-> me.file, chunk |-> me.chunk,
     audio_rows |-> Len(me.piece), engine |-> engine, set |-> set]

\* sess.run(self.enq_lc, ...) with the result res of LcEncode; an
\* exception of the mapper ends the thread before anything is queued
EnqLcWith(t, res) ==
    IF res.err # NoErr
    THEN /\ th' = [th EXCEPT ![t] = [th[t] EXCEPT !.pc = "dead", !.err = res.err,
                                                  !.mapper = res.m]]
         /\ q_lc' = q_lc
    ELSE /\ ~QueueFull(q_lc)
         /\ q_lc' = Enqueue(q_lc, LcItem(th[t], res.engine, res.set))
         /\ th' = [th EXCEPT ![t] = Advance([th[t] EXCEPT !.mapper = res.m])]

EnqLc(t) ==
    /\ th[t].pc = "enq_lc"
    /\ EnqLcWith(t, LcEncode(th[t]))
    /\ UNCHANGED <<mvars, rcfg, coord_stop, q_audio>>

\* dq_audio(1) and dq_lc(1), run by the training loop
DqAudio ==
    /\ q_audio.taken < Len(q_audio.items)
    /\ q_audio' = [q_audio EXCEPT !.taken = q_audio.taken + 1]
    /\ UNCHANGED <<mvars, rcfg, coord_stop, q_lc, th>>

DqLc ==
    /\ q_lc.taken < Len(q_lc.items)
    /\ q_lc' = [q_lc EXCEPT !.taken = q_lc.taken + 1]
    /\ UNCHANGED <<mvars, rcfg, coord_stop, q_audio, th>>

\* coord.request_stop(), by the training loop
RequestStop ==
    /\ ~coord_stop
    /\ coord_stop' = TRUE
    /\ UNCHANGED <<mvars, rcfg, q_audio, q_lc, th>>

NextReader ==
    \/ \E t \in Threads, f \in 1..Len(RC.files) : NextFile(t, f)
    \/ \E t \in Threads : EnqAudio(t)
    \/ \E t \in Threads : EnqLc(t)
    \/ DqAudio
    \/ DqLc
    \/ RequestStop

SpecReader == InitReader /\ [][NextReader]_vars
(***************************************************************************)
(* Properties of the reader (specification SpecReader)                     *)
(***************************************************************************)
\* The first n rows of array a continued with zero rows
FitTo(a, n) == TakeRows(a \o Zeros(n), n)

\* C3: in chopped and whole-file mode alike, the array passed to enq_lc has
\* exactly as many rows N as the audio array enqueued with it: the engine
\* output of L rows is right-padded with zero rows to N when L < N,
\* truncated to its first N rows when L > N, passed unchanged when L = N.
C3_LcRowsMatchAudio ==
    \A k \in 1..Len(q_lc.items) :
        /\ Len(q_lc.items[k].data) = q_lc.items[k].audio_rows
        /\ q_lc.items[k].data = FitTo(q_lc.items[k].engine, q_lc.items[k].audio_rows)

\* C4: with local conditioning enabled and any number of producer threads,
\* under every interleaving the k-th array of the audio queue and the k-th
\* array of the LC queue were made from the same chunk of the same file.
C4_QueuesPaired ==
    \A k \in 1..Len(q_lc.items) :
        /\ k <= Len(q_audio.items)
        /\ q_audio.items[k].file = q_lc.items[k].file
        /\ q_audio.items[k].chunk = q_lc.items[k].chunk

\* a[from : from + n]
Window(a, from, n) == TakeRows(DropRows(a, from), n)

\* receptive_field zero rows followed by what upsample() returns on the
\* mapper as set_midi left it for the file of LC item it
PaddedEngine(it) ==
    Zeros(RC.receptive_field) \o Upsample(py, it.set, 0, None).out

\* The rows of it that the k-th chunk covers: all of them for a whole file
ChunkOf(a, k) ==
    IF RC.sample_size = 0 THEN a
    ELSE Window(a, k * RC.sample_size, RC.receptive_field + RC.sample_size)

\* Arrays a and b have the same rows at every index both have
AgreeOnCommonRows(a, b) ==
    \A r \in 1..Len(a) : r <= Len(b) => a[r] = b[r]

\* LC item it was cut from the rows w: its array before pad or truncate is
\* w, and the array queued has the rows of w at every index both have
LcAlignedWith(it, w) == it.engine = w /\ AgreeOnCommonRows(it.data, w)

\* C24: the conditioning stream stays index-aligned with the zero-padded
\* audio: the LC array of chunk k, before pad or truncate, is the window at
\* row k * sample_size of receptive_field zero rows followed by the engine
\* output (the whole of it in whole-file mode), and the audio of chunk k is
\* the same window of the padded audio.  Queued arrays never change, and
\* each is the last of q_lc in the state its enqueue leads to, so the LC
\* part is stated of the array queued last.
C24_StreamsAligned ==
    /\ q_lc.items # <<>>
           => LcAlignedWith(q_lc.items[Len(q_lc.items)],
                            ChunkOf(PaddedEngine(q_lc.items[Len(q_lc.items)]),
                                    q_lc.items[Len(q_lc.items)].chunk))
    /\ \A k \in 1..Len(q_audio.items) :
           q_audio.items[k].data
               = ChunkOf(PadAudio(LoadAudio(q_audio.items[k].file)),
                         q_audio.items[k].chunk)

\* C24 witness: a chopped file's LC chunk after the first was queued, with
\* rows of active notes in it
C24_Witness ==
    /\ rcfg # 0
    /\ RC.sample_size # 0
    /\ \E k \in 1..Len(q_lc.items) :
           /\ q_lc.items[k].chunk >= 1
           /\ \E r \in 1..Len(q_lc.items[k].data) : q_lc.items[k].data[r] # {}

\* Thread t is between the audio enqueue and the end of a file
InFile(t) == th[t].pc \in {"enq_audio", "enq_lc"}

\* C25: each producer thread checks coord.should_stop() once per file,
\* before processing it: if it is true the thread queues nothing for that
\* file, returns and queues nothing afterwards; a thread returns nowhere
\* else, and a thread that is chopping a file leaves the file only when no
\* chunk of it remains, whether or not a stop was requested meanwhile.
C25_StopCheckedPerFile ==
    [][/\ \A t \in DOMAIN th :
              /\ (th[t].pc = "file" /\ th'[t] # th[t] /\ coord_stop)
                     => /\ th'[t].pc = "done"
                        /\ q_audio' = q_audio /\ q_lc' = q_lc
              /\ (th[t].pc = "file" /\ th'[t] # th[t] /\ ~coord_stop)
                     => th'[t].pc # "done"
              /\ (th[t].pc # "done" /\ th'[t].pc = "done")
                     => th[t].pc = "file" /\ coord_stop
              /\ th[t].pc = "done" => th'[t] = th[t]
              /\ (InFile(t) /\ th'[t].pc = "file" /\ RC.sample_size # 0)
                     => Len(th'[t].audio) <= RC.receptive_field
       /\ Len(q_audio'.items) > Len(q_audio.items)
              => \E t \in DOMAIN th : th[t].pc = "enq_audio" /\ th'[t] # th[t]
       /\ Len(q_lc'.items) > Len(q_lc.items)
              => \E t \in DOMAIN th : th[t].pc = "enq_lc" /\ th'[t] # th[t]
      ]_vars

\* C25 witness: a chunk after the first of a chopped file was queued after
\* the stop was requested, and the thread returned at its next file
C25_Witness ==
    /\ coord_stop
    /\ \E k \in 1..Len(q_audio.items) :
           q_audio.items[k].stopped /\ q_audio.items[k].chunk >= 1
    /\ \E t \in DOMAIN th : th[t].pc = "done"

CeilDiv(n, d) == (n + d - 1) \div d

\* Thread t began the chopping loop for its file and has left it
LeftLoop(t) ==
    th[t].file # 0 /\ th[t].chunk >= 1 /\ th[t].pc \in {"file", "dead", "done"}

\* C26: in chopped mode, for an audio file of n >= 1 samples the chopping
\* loop ends after exactly ceil(n / sample_size) iterations, every queued
\* piece has more than receptive_field and at most receptive_field +
\* sample_size rows, and consecutive pieces start sample_size rows apart.
C26_ChoppingLoop ==
    (rcfg # 0 /\ RC.sample_size # 0) =>
        /\ \A t \in DOMAIN th :
               LeftLoop(t)
                   => th[t].chunk = CeilDiv(RC.files[th[t].file].n, RC.sample_size)
        /\ \A k \in 1..Len(q_audio.items) :
               /\ Len(q_audio.items[k].data) > RC.receptive_field
               /\ Len(q_audio.items[k].data) <= RC.receptive_field + RC.sample_size
               /\ q_audio.items[k].data
                      = Window(PadAudio(LoadAudio(q_audio.items[k].file)),
                               q_audio.items[k].chunk * RC.sample_size,
                               RC.receptive_field + RC.sample_size)
====
